---- MODULE Spec2Model ----
(***************************************************************************)
(* Model of src/nonlinear_solvers/solvers.py: newton_raphson, bisection    *)
(* and solve.                                                              *)
(*                                                                         *)
(* Numbers.  Every abscissa x is a dyadic rational n / Den; the model      *)
(* stores the integer n.  Den is a power of two large enough that every    *)
(* midpoint (x_0 + x_1)/2 a call can compute is again n / Den, so the      *)
(* arithmetic of the model is the exact float arithmetic of the code.      *)
(*                                                                         *)
(* Functions.  f and df are step functions given by a table over the       *)
(* cells x < 1, 1 <= x < 2 and 2 <= x: f(x) = table[floor(x)] on [0,3),    *)
(* the first cell's value below 0 and the last cell's from 3 on, in Python *)
(*     f = lambda x: table[min(max(math.floor(x), 0), 2)]                  *)
(* with plain Python numbers as values, so that f(x)/df(x) with df(x) = 0  *)
(* raises ZeroDivisionError (line 39).                                     *)
(***************************************************************************)
EXTENDS Integers, Sequences, FiniteSets

\* Largest iteration cap (max_its, max_its_n, max_its_b) a call is given.
MaxIts == 2

RECURSIVE Pow2(_)
Pow2(n) == IF n = 0 THEN 1 ELSE 2 * Pow2(n - 1)

\* Denominator of the abscissae: a call computes at most MaxIts + 1 nested
\* midpoints of endpoints that are whole numbers.
Den == Pow2(MaxIts + 1)

Cells == {0, 1, 2}
FVals == {-2, -1, 0, 1, 2}
DVals == {-1, 0, 2}
EpsVals == {1}
\* Starting points and bracket ends: 0, 2 and 4.
Starts == {0, 2 * Den, 4 * Den}
Caps == 0 .. MaxIts

\* An absent value (no float returned, a local not yet bound).
NoValue == << >>

VARIABLES
    op,          \* the function the caller invoked
    f, df,       \* tables of the arguments f and df
    x_0, x_1,    \* arguments x_0 and x_1 of the call
    eps,         \* argument eps
    max_its_n,   \* cap of the Newton-Raphson loop
    max_its_b,   \* cap of the bisection loop
    pc,          \* "nr": at line 38; "bis_start": at line 72; "bis": at line 74
    nr_x,        \* newton_raphson's local x_0
    nr_it,       \* newton_raphson's local iteration
    nr_out,      \* how the newton_raphson call ended ("none" while running)
    b_x0, b_x1,  \* bisection's locals x_0 and x_1
    x_mid,       \* bisection's local x_mid
    b_it,        \* bisection's local iteration
    b_out,       \* how the bisection call ended ("none" while running)
    outcome,     \* how the caller's call ended ("none" while running)
    result,      \* <<x>> once the caller's call returned x
    df_evals,    \* history: number of evaluations of df
    f_evals_b,   \* history: number of evaluations of f made by bisection
    nr_tested,   \* history: <<x>> for the x_0 the guard of line 38 last tested
    b_tested,    \* history: <<x>> for the x_mid the guard of line 74 last tested
    last_nomatch,\* history: the last bisection pass matched no narrowing case
    mid_idx      \* history: index of x_mid among the distinct midpoints

inputs == <<op, f, df, x_0, x_1, eps, max_its_n, max_its_b>>
nr_vars == <<nr_x, nr_it, nr_out, df_evals, nr_tested>>
b_vars == <<b_x0, b_x1, x_mid, b_it, b_out, f_evals_b, last_nomatch, mid_idx,
            b_tested>>
vars == <<inputs, pc, nr_vars, b_vars, outcome, result>>

----------------------------------------------------------------------------
\* Pure parts of the code.

Abs(v) == IF v < 0 THEN -v ELSE v

Cell(x) == IF x < 0 THEN 0 ELSE IF x \div Den > 2 THEN 2 ELSE x \div Den

\* f(x) and df(x) for the table t.
F(t, x) == t[Cell(x)]

\* a / b for b # 0, exact on the values the model draws.
Quot(a, b) == IF b > 0 THEN a \div b ELSE -(a \div (-b))

\* Loop guard of both solvers: np.abs(f(x)) > eps.
Guard(ft, x, e) == Abs(F(ft, x)) > e

\* Mutant of NewtonUpdate: the quotient written as a product.
NewtonUpdateTimes(ft, dt, x) == x - F(ft, x) * F(dt, x) * Den

\* x_0 - (f(x_0) / df(x_0)), for df(x_0) # 0.
NewtonUpdate(ft, dt, x) == x - Quot(F(ft, x) * Den, F(dt, x))

\* Mutants of CapExceeded: the cap tested with >=, and one pass late.
CapExceededAtCap(it, max) == it >= max
CapExceededLate(it, max) == it > max + 1

\* if iteration > max_its
CapExceeded(it, max) == it > max

\* (x_0 + x_1)/2
Mid(a, b) == (a + b) \div 2

\* Mutant of BothPositive: the second comparison reversed.
BothPositiveTypo(f_x0, f_x1) == (f_x0 > 0) /\ (f_x1 < 0)

\* Lines 79 and 81: the conditions of the two ValueErrors.
BothPositive(f_x0, f_x1) == (f_x0 > 0) /\ (f_x1 > 0)

BothNegative(f_x0, f_x1) == (f_x0 < 0) /\ (f_x1 < 0)

\* Mutant of Narrow: the third case replaces the wrong endpoint.
NarrowWrongEnd(f_xmid, f_x0, f_x1, a, b, m) ==
    IF f_xmid < 0 /\ f_x0 < 0 THEN <<m, b>>
    ELSE IF f_xmid > 0 /\ f_x0 > 0 THEN <<m, b>>
    ELSE IF f_xmid > 0 /\ f_x1 > 0 THEN <<m, b>>
    ELSE IF f_xmid < 0 /\ f_x1 < 0 THEN <<a, m>>
    ELSE <<a, b>>

\* Mutant of Narrow: a final else that moves the left endpoint.
NarrowElseLeft(f_xmid, f_x0, f_x1, a, b, m) ==
    IF f_xmid < 0 /\ f_x0 < 0 THEN <<m, b>>
    ELSE IF f_xmid > 0 /\ f_x0 > 0 THEN <<m, b>>
    ELSE IF f_xmid > 0 /\ f_x1 > 0 THEN <<a, m>>
    ELSE IF f_xmid < 0 /\ f_x1 < 0 THEN <<a, m>>
    ELSE <<m, b>>

\* The if/elif chain of lines 83-90: the new <<x_0, x_1>>.
Narrow(f_xmid, f_x0, f_x1, a, b, m) ==
    IF f_xmid < 0 /\ f_x0 < 0 THEN <<m, b>>
    ELSE IF f_xmid > 0 /\ f_x0 > 0 THEN <<m, b>>
    ELSE IF f_xmid > 0 /\ f_x1 > 0 THEN <<a, m>>
    ELSE IF f_xmid < 0 /\ f_x1 < 0 THEN <<a, m>>
    ELSE <<a, b>>

\* None of the four conditions of lines 83-90 is true.
NoMatch(f_xmid, f_x0, f_x1) ==
    /\ ~(f_xmid < 0 /\ f_x0 < 0)
    /\ ~(f_xmid > 0 /\ f_x0 > 0)
    /\ ~(f_xmid > 0 /\ f_x1 > 0)
    /\ ~(f_xmid < 0 /\ f_x1 < 0)

Returned(x) == [out |-> "return", val |-> <<x>>]
Raised(e) == [out |-> e, val |-> NoValue]

\* Mutant of Caught: bisection also follows a Newton-Raphson return.
CaughtOrReturned(e) == e \in {"ConvergenceError", "return"}

\* except ConvergenceError (line 131)
Caught(e) == e = "ConvergenceError"

\* Mutant of FallbackLeft: the estimate Newton-Raphson ended with.
FallbackLeftIterated(a, x) == x

\* The left end solve hands to bisection (line 132): its own x_0.
FallbackLeft(a, x) == a

RECURSIVE NRLoop(_, _, _, _, _, _)
NRLoop(ft, dt, x, e, max, it) ==
    IF ~Guard(ft, x, e) THEN Returned(x)
    ELSE IF F(dt, x) = 0 THEN Raised("ZeroDivisionError")
    ELSE IF CapExceeded(it + 1, max) THEN Raised("ConvergenceError")
    ELSE NRLoop(ft, dt, NewtonUpdate(ft, dt, x), e, max, it + 1)

newton_raphson(ft, dt, a, e, max) == NRLoop(ft, dt, a, e, max, 0)

RECURSIVE BisLoop(_, _, _, _, _, _, _)
BisLoop(ft, a, b, m, e, max, it) ==
    IF ~Guard(ft, m, e) THEN Returned(m)
    ELSE LET m2 == Mid(a, b)
             nb == Narrow(F(ft, m2), F(ft, a), F(ft, b), a, b, m2)
         IN  IF BothPositive(F(ft, a), F(ft, b)) THEN Raised("ValueError_positive")
             ELSE IF BothNegative(F(ft, a), F(ft, b)) THEN Raised("ValueError_negative")
             ELSE IF CapExceeded(it + 1, max) THEN Raised("ConvergenceError")
             ELSE BisLoop(ft, nb[1], nb[2], m2, e, max, it + 1)

bisection(ft, a, b, e, max) == BisLoop(ft, a, b, Mid(a, b), e, max, 0)

solve(ft, dt, a, b, e, max_n, max_b) ==
    LET n == newton_raphson(ft, dt, a, e, max_n)
    IN  IF Caught(n.out) THEN bisection(ft, FallbackLeft(a, a), b, e, max_b) ELSE n

----------------------------------------------------------------------------
\* The calls, one loop pass at a time.

Tables(V) == [Cells -> V]

InitLocals ==
    /\ nr_x = x_0 /\ nr_it = 0 /\ nr_out = "none" /\ df_evals = 0
    /\ b_x0 = x_0 /\ b_x1 = x_1 /\ x_mid = NoValue /\ b_it = 0 /\ b_out = "none"
    /\ f_evals_b = 0 /\ last_nomatch = FALSE /\ mid_idx = 0
    /\ outcome = "none" /\ result = NoValue
    /\ nr_tested = NoValue /\ b_tested = NoValue

\* newton_raphson(f, df, x_0, eps, max_its)
CallNewton ==
    /\ op = "newton_raphson" /\ pc = "nr"
    /\ f \in Tables(FVals) /\ df \in Tables(DVals)
    /\ x_0 \in Starts /\ x_1 = 0
    /\ eps \in EpsVals /\ max_its_n \in Caps /\ max_its_b = 0
    /\ InitLocals

\* bisection(f, x_0, x_1, eps, max_its)
CallBisection ==
    /\ op = "bisection" /\ pc = "bis_start"
    /\ f \in Tables(FVals) /\ df = [c \in Cells |-> 0]
    /\ x_0 \in Starts /\ x_1 \in Starts
    /\ eps \in EpsVals /\ max_its_n = 0 /\ max_its_b \in Caps
    /\ InitLocals

\* solve(f, df, x_0, x_1, eps, max_its_n, max_its_b)
CallSolve ==
    /\ op = "solve" /\ pc = "nr"
    /\ f \in Tables(FVals) /\ df \in Tables(DVals)
    /\ x_0 \in Starts /\ x_1 \in Starts
    /\ eps \in EpsVals /\ max_its_n \in Caps /\ max_its_b \in Caps
    /\ InitLocals

Init == CallNewton \/ CallBisection \/ CallSolve

\* The newton_raphson call ends with r; solve returns its value, catches
\* ConvergenceError and lets any other exception pass (lines 129-133).
NREnds(r) ==
    /\ nr_out' = r.out
    /\ IF op = "solve" /\ Caught(r.out)
       THEN pc' = "bis_start" /\ outcome' = outcome /\ result' = result
       ELSE pc' = "done" /\ outcome' = r.out /\ result' = r.val

\* One test of the guard of line 38 and, when it holds, one pass of the body.
NRPass ==
    /\ pc = "nr"
    /\ nr_tested' = <<nr_x>>
    /\ IF ~Guard(f, nr_x, eps)
       THEN /\ NREnds(Returned(nr_x))
            /\ UNCHANGED <<nr_x, nr_it, df_evals>>
       ELSE /\ df_evals' = df_evals + 1
            /\ IF F(df, nr_x) = 0
               THEN /\ NREnds(Raised("ZeroDivisionError"))
                    /\ UNCHANGED <<nr_x, nr_it>>
               ELSE /\ nr_x' = NewtonUpdate(f, df, nr_x)
                    /\ nr_it' = nr_it + 1
                    /\ IF CapExceeded(nr_it + 1, max_its_n)
                       THEN NREnds(Raised("ConvergenceError"))
                       ELSE /\ pc' = "nr"
                            /\ UNCHANGED <<nr_out, outcome, result>>
    /\ UNCHANGED <<inputs, b_vars>>

\* Lines 72-73 of a bisection call: from the caller (op = "bisection") or
\* from solve's except clause (line 132).
BisectionEnter ==
    /\ pc = "bis_start"
    /\ b_x0' = (IF op = "solve" THEN FallbackLeft(x_0, nr_x) ELSE x_0)
    /\ b_x1' = x_1
    /\ b_it' = 0
    /\ x_mid' = <<Mid(b_x0', b_x1')>>
    /\ mid_idx' = 0
    /\ pc' = "bis"
    /\ UNCHANGED <<inputs, nr_vars, b_out, f_evals_b, last_nomatch, b_tested,
                   outcome, result>>

BisEnds(r) ==
    /\ b_out' = r.out
    /\ pc' = "done" /\ outcome' = r.out /\ result' = r.val

\* One test of the guard of line 74 and, when it holds, one pass of the body.
BisectionPass ==
    /\ pc = "bis"
    /\ b_tested' = x_mid
    /\ IF ~Guard(f, x_mid[1], eps)
       THEN /\ BisEnds(Returned(x_mid[1]))
            /\ f_evals_b' = f_evals_b + 1
            /\ UNCHANGED <<b_x0, b_x1, x_mid, b_it, last_nomatch, mid_idx>>
       ELSE LET m == Mid(b_x0, b_x1)
                f_xmid == F(f, m)
                f_x0 == F(f, b_x0)
                f_x1 == F(f, b_x1)
                nb == Narrow(f_xmid, f_x0, f_x1, b_x0, b_x1, m)
            IN  /\ f_evals_b' = f_evals_b + 4
                /\ x_mid' = <<m>>
                /\ mid_idx' = (IF m = x_mid[1] THEN mid_idx ELSE mid_idx + 1)
                /\ IF BothPositive(f_x0, f_x1)
                   THEN /\ BisEnds(Raised("ValueError_positive"))
                        /\ UNCHANGED <<b_x0, b_x1, b_it, last_nomatch>>
                   ELSE IF BothNegative(f_x0, f_x1)
                   THEN /\ BisEnds(Raised("ValueError_negative"))
                        /\ UNCHANGED <<b_x0, b_x1, b_it, last_nomatch>>
                   ELSE /\ b_x0' = nb[1]
                        /\ b_x1' = nb[2]
                        /\ last_nomatch' = NoMatch(f_xmid, f_x0, f_x1)
                        /\ b_it' = b_it + 1
                        /\ IF CapExceeded(b_it + 1, max_its_b)
                           THEN BisEnds(Raised("ConvergenceError"))
                           ELSE /\ pc' = "bis"
                                /\ UNCHANGED <<b_out, outcome, result>>
    /\ UNCHANGED <<inputs, nr_vars>>

Next == NRPass \/ BisectionEnter \/ BisectionPass

Spec == Init /\ [][Next]_vars

\* The interpreter runs a call that has not ended.
FairSpec == Spec /\ WF_vars(Next)

----------------------------------------------------------------------------
\* Properties.

Sign(v) == IF v > 0 THEN 1 ELSE IF v < 0 THEN -1 ELSE 0

StrictlyOpposite(a, b) == (a > 0 /\ b < 0) \/ (a < 0 /\ b > 0)

\* The bisection call has begun (line 73 has bound x_mid).
BisectionRan == x_mid # NoValue

\* x meets the tolerance as the loops test it: abs(f(x)) > eps is false.
Passes(x) == Abs(F(f, x)) <= eps

\* The two ValueErrors of lines 80 and 82.
ValueErrors == {"ValueError_positive", "ValueError_negative"}

\* C1: whenever a call returns a value x, abs(f(x)) < eps.
C1_ReturnedBelowEps ==
    outcome = "return" => Abs(F(f, result[1])) < eps

\* C2: when the Newton-Raphson stage of solve returns, solve has returned
\* exactly that value, which is the value newton_raphson alone computes from
\* (f, df, x_0, eps, max_its_n), and bisection has not run: it bound no
\* midpoint, evaluated f nowhere and ended in no way.
C2_NewtonResultReturned ==
    (op = "solve" /\ nr_out = "return") =>
        /\ pc = "done" /\ outcome = "return"
        /\ result = <<nr_x>>
        /\ result = newton_raphson(f, df, x_0, eps, max_its_n).val
        /\ ~BisectionRan /\ f_evals_b = 0 /\ b_it = 0 /\ b_out = "none"

\* solve returned Newton's value after an update, on a bracket on which
\* bisection raises ValueError.
C2_Witness ==
    /\ op = "solve" /\ nr_out = "return" /\ outcome = "return" /\ nr_it >= 1
    /\ bisection(f, x_0, x_1, eps, max_its_b).out \in ValueErrors

\* C3: solve runs bisection exactly when its Newton-Raphson stage raised
\* ConvergenceError; the call then ends as bisection(f, x_0, x_1, eps,
\* max_its_b) on solve's own x_0 ends; another error of the Newton-Raphson
\* stage ends the call with that error and without bisection; and once
\* bisection has ended the call has ended with bisection's outcome.
C3_FallbackIsBisection ==
    op = "solve" =>
        /\ (pc \in {"bis_start", "bis"} \/ BisectionRan) => nr_out = "ConvergenceError"
        /\ nr_out = "ConvergenceError" => pc \in {"bis_start", "bis", "done"}
        /\ (nr_out = "ConvergenceError" /\ pc = "done") =>
               /\ BisectionRan /\ b_out = outcome
               /\ [out |-> outcome, val |-> result]
                      = bisection(f, x_0, x_1, eps, max_its_b)
        /\ nr_out \notin {"none", "return", "ConvergenceError"} =>
               /\ pc = "done" /\ outcome = nr_out /\ result = NoValue
               /\ ~BisectionRan /\ f_evals_b = 0
        /\ b_out # "none" => (pc = "done" /\ outcome = b_out)
        /\ nr_it <= max_its_n + 1

\* solve fell back after Newton-Raphson had moved its estimate, and the
\* bisection of the original bracket returned.
C3_Witness ==
    /\ op = "solve" /\ pc = "done" /\ nr_out = "ConvergenceError"
    /\ nr_x # x_0 /\ outcome = "return" /\ b_it >= 1

\* C4 as stated: a bisection call whose initial endpoints both evaluate
\* strictly positive (negative) ends with the 'positive' ('negative')
\* ValueError, raised in the first pass.
C4_SameSignAlwaysRaises ==
    (b_out # "none") =>
        /\ (F(f, x_0) > 0 /\ F(f, x_1) > 0) =>
               (b_out = "ValueError_positive" /\ b_it = 0)
        /\ (F(f, x_0) < 0 /\ F(f, x_1) < 0) =>
               (b_out = "ValueError_negative" /\ b_it = 0)

\* C4, amended: the same, for the calls whose initial midpoint fails the
\* tolerance test, abs(f((x_0 + x_1)/2)) > eps; the other calls return the
\* initial midpoint without looking at the endpoints.
C4_SameSignRaisesUnlessConverged ==
    (b_out # "none") =>
        /\ (Sign(F(f, x_0)) # 0 /\ Sign(F(f, x_0)) = Sign(F(f, x_1))) =>
               IF ~Passes((x_0 + x_1) \div 2)
               THEN /\ b_out = (IF F(f, x_0) > 0 THEN "ValueError_positive"
                                                ELSE "ValueError_negative")
                    /\ b_it = 0 /\ mid_idx = 0 /\ result = NoValue
               ELSE /\ b_out = "return" /\ result = <<(x_0 + x_1) \div 2>> /\ b_it = 0

\* A bisection call with a cap of 0 raised the 'negative' ValueError.
C4_Witness ==
    /\ op = "bisection" /\ b_out = "ValueError_negative" /\ max_its_b = 0
    /\ F(f, x_0) < 0 /\ F(f, x_1) < 0

\* C5 as stated: when a solver raises ConvergenceError its counter is
\* max_its + 1 and its current estimate fails the tolerance.
C5_RaisedMeansNotConverged ==
    /\ nr_out = "ConvergenceError" =>
           (nr_it = max_its_n + 1 /\ ~Passes(nr_x))
    /\ b_out = "ConvergenceError" =>
           (b_it = max_its_b + 1 /\ ~Passes(x_mid[1]))

\* C5, amended: when a solver raises ConvergenceError its counter is
\* max_its + 1 and the estimate its loop guard last tested (x before the last
\* update, the midpoint before the last pass recomputed it) failed the
\* tolerance; the estimate computed in the last pass is not tested.
C5_RaisedMeansLastTestedNotConverged ==
    /\ nr_out = "ConvergenceError" =>
           /\ nr_it = max_its_n + 1
           /\ nr_tested # NoValue /\ ~Passes(nr_tested[1])
           /\ nr_x = NewtonUpdate(f, df, nr_tested[1])
    /\ b_out = "ConvergenceError" =>
           /\ b_it = max_its_b + 1
           /\ b_tested # NoValue /\ ~Passes(b_tested[1])

\* Newton-Raphson raised ConvergenceError on an estimate that meets the
\* tolerance.
C5_Witness ==
    /\ nr_out = "ConvergenceError" /\ Passes(nr_x) /\ max_its_n >= 1

\* The reference sequence of C6: <<x_k>> with x_0 = a and
\* x_{k+1} = x_k - f(x_k)/df(x_k), or NoValue once a quotient is undefined.
RECURSIVE RefIterate(_, _, _, _)
RefIterate(ft, dt, a, k) ==
    IF k = 0 THEN <<a>>
    ELSE LET p == RefIterate(ft, dt, a, k - 1)
         IN  IF p = NoValue THEN NoValue
             ELSE IF F(dt, p[1]) = 0 THEN NoValue
             ELSE <<p[1] - Quot(F(ft, p[1]) * Den, F(dt, p[1]))>>

\* The indices 0..max_its_n whose iterate exists and passes, i.e. for which
\* the loop guard abs(f(x_k)) > eps is false.
RefPassing ==
    {k \in 0 .. max_its_n :
        LET p == RefIterate(f, df, x_0, k)
        IN  p # NoValue /\ Passes(p[1])}

MinOf(S) == CHOOSE k \in S : \A j \in S : k <= j

\* C6 as stated: the ended newton_raphson call returned the first passing
\* iterate of index 0..max_its, raised ConvergenceError exactly when there is
\* none, returned x_0 without evaluating df when x_0 passes, and with
\* max_its = 0 raised ConvergenceError when x_0 does not pass.
C6_AgreesWithReference ==
    (nr_out # "none") =>
        /\ RefPassing # {} =>
               /\ nr_out = "return" /\ nr_it = MinOf(RefPassing)
               /\ <<nr_x>> = RefIterate(f, df, x_0, MinOf(RefPassing))
        /\ (nr_out = "ConvergenceError") <=> (RefPassing = {})
        /\ 0 \in RefPassing => (nr_x = x_0 /\ df_evals = 0)
        /\ (max_its_n = 0 /\ 0 \notin RefPassing) => nr_out = "ConvergenceError"

\* C6, amended: as stated, but ConvergenceError is raised exactly when no
\* iterate of index 0..max_its passes and df is nonzero at each of them; when
\* df is zero at an iterate that fails the guard before one passes, the
\* quotient of line 39 raises ZeroDivisionError.
C6_AgreesWithReferenceWhereDefined ==
    (nr_out # "none") =>
        LET defined == RefIterate(f, df, x_0, max_its_n + 1) # NoValue
        IN  /\ RefPassing # {} =>
                   /\ nr_out = "return" /\ nr_it = MinOf(RefPassing)
                   /\ <<nr_x>> = RefIterate(f, df, x_0, MinOf(RefPassing))
            /\ (nr_out = "ConvergenceError") <=> (RefPassing = {} /\ defined)
            /\ (nr_out = "ZeroDivisionError") <=> (RefPassing = {} /\ ~defined)
            /\ 0 \in RefPassing => (nr_x = x_0 /\ df_evals = 0)
            /\ (max_its_n = 0 /\ 0 \notin RefPassing /\ F(df, x_0) # 0) =>
                   nr_out = "ConvergenceError"

\* newton_raphson returned the last iterate the cap lets it test, after at
\* least one update.
C6_Witness ==
    /\ nr_out = "return" /\ nr_it = max_its_n /\ max_its_n >= 1 /\ nr_x # x_0

\* C7: in a bisection call whose initial endpoints evaluate with strictly
\* opposite signs, the current endpoints keep the signs of the initial ones
\* (so they evaluate with strictly opposite signs at every loop guard), and
\* the call does not raise ValueError.
C7_BracketInvariant ==
    (BisectionRan /\ StrictlyOpposite(F(f, x_0), F(f, x_1))) =>
        /\ Sign(F(f, b_x0)) = Sign(F(f, x_0))
        /\ Sign(F(f, b_x1)) = Sign(F(f, x_1))
        /\ StrictlyOpposite(F(f, b_x0), F(f, b_x1))
        /\ b_out \in {"none", "return", "ConvergenceError"}

\* Both endpoints of a strictly sign-changing bracket have been replaced.
C7_Witness ==
    /\ BisectionRan /\ StrictlyOpposite(F(f, x_0), F(f, x_1))
    /\ pc = "bis" /\ b_x0 # x_0 /\ b_x1 # x_1

\* C8 as stated: after a pass in which no narrowing case matched, the loop
\* guard finds the midpoint of that pass converged.
C8_NoMatchThenExit ==
    (pc = "bis" /\ last_nomatch) => Passes(x_mid[1])

\* C8, amended: a pass in which no narrowing case matched leaves both
\* endpoints as they were; if neither endpoint evaluates to exactly zero, the
\* midpoint of that pass evaluates to exactly zero and the next loop guard
\* ends the loop.
C8_NoMatchThenExitUnlessZeroEndpoint ==
    /\ [](  (pc = "bis" /\ last_nomatch /\ F(f, b_x0) # 0 /\ F(f, b_x1) # 0) =>
                (F(f, x_mid[1]) = 0 /\ Passes(x_mid[1])))
    /\ [][ (pc = "bis" /\ b_it' = b_it + 1 /\ last_nomatch') =>
                (b_x0' = b_x0 /\ b_x1' = b_x1) ]_vars

\* The loop is back at its guard after a pass, not the first, in which no
\* case matched, with both endpoints nonzero.
C8_Witness ==
    /\ pc = "bis" /\ last_nomatch /\ b_it >= 2
    /\ F(f, b_x0) # 0 /\ F(f, b_x1) # 0

\* C9: the first pass recomputes the initial midpoint; a bisection call that
\* returns returns its current midpoint, whose index among the distinct
\* midpoints is at most max_its - 1 (0 for max_its <= 1, where the value is
\* the initial midpoint); the pass that trips the cap returns nothing.
C9_CapWastesFirstPass ==
    /\ (BisectionRan /\ b_it <= 1) => (mid_idx = 0 /\ x_mid = <<(x_0 + x_1) \div 2>>)
    /\ BisectionRan => mid_idx <= (IF b_it = 0 THEN 0 ELSE b_it - 1)
    /\ b_out = "return" =>
           /\ result = x_mid
           /\ b_it <= max_its_b
           /\ mid_idx <= (IF max_its_b = 0 THEN 0 ELSE max_its_b - 1)
           /\ max_its_b <= 1 => result = <<(x_0 + x_1) \div 2>>
    /\ b_out = "ConvergenceError" => (result = NoValue /\ b_it = max_its_b + 1)

\* The pass that tripped the cap computed midpoint m_{max_its}, which meets
\* the tolerance, and the call raised ConvergenceError.
C9_Witness ==
    /\ b_out = "ConvergenceError" /\ max_its_b >= 1 /\ mid_idx = max_its_b
    /\ Passes(x_mid[1])

\* What C10 and its amendment share: the numbers of updates and passes, and
\* that only a returning call has a value.
C10_Bounds ==
    /\ nr_it <= max_its_n + 1
    /\ df_evals <= max_its_n + 1
    /\ b_it + (IF b_out \in ValueErrors THEN 1 ELSE 0) <= max_its_b + 1
    /\ (outcome = "return") <=> (result # NoValue)
    /\ (pc = "done") <=> (outcome # "none")
    /\ pc # "done" => ENABLED Next

\* C10 as stated: newton_raphson ends by return or ConvergenceError, bisection
\* by return, ValueError or ConvergenceError, within the bounds.
C10_EndsAsListed ==
    /\ C10_Bounds
    /\ nr_out \in {"none", "return", "ConvergenceError"}
    /\ b_out \in {"none", "return", "ConvergenceError"} \cup ValueErrors

\* C10, amended: every call ends; newton_raphson ends by return, by
\* ConvergenceError or by the ZeroDivisionError of line 39, bisection by
\* return, ValueError or ConvergenceError, within the bounds.
C10_Terminates ==
    /\ [](  /\ C10_Bounds
            /\ nr_out \in {"none", "return", "ConvergenceError", "ZeroDivisionError"}
            /\ b_out \in {"none", "return", "ConvergenceError"} \cup ValueErrors)
    /\ <>(pc = "done")

\* solve ended after max_its_n + 1 updates and max_its_b + 1 passes.
C10_Witness ==
    /\ op = "solve" /\ pc = "done" /\ max_its_n >= 1 /\ max_its_b >= 1
    /\ nr_it = max_its_n + 1 /\ b_it = max_its_b + 1

====
